---- MODULE Spec2Model ----
(***************************************************************************)
(* Model of the AI priority suggestion engine of AIProductivityApp:        *)
(*   app/services/priority_suggestion_service.py  (search, scorer,         *)
(*                                                  orchestrator)          *)
(*   app/services/embedding_service.py            (cosine similarity)      *)
(*   app/api/endpoints/ai_priority.py             (HTTP handlers)          *)
(*                                                                         *)
(* Numbers.  Python floats are modelled by exact arithmetic:               *)
(*   - a similarity is an integer number of hundredths (SimScale);         *)
(*     the embedding vectors of the model have integer norms that make     *)
(*     every cosine an exact number of hundredths;                         *)
(*   - a score is a rational [n, d] with d > 0;                            *)
(*   - round(x, 2) gives an integer number of hundredths;                  *)
(*   - a time is an integer number of ticks, TicksPerDay ticks a day, and  *)
(*     timedelta.days is the floor of ticks / TicksPerDay.                 *)
(*                                                                         *)
(* The task store (the tasks table) is the external collaborator of the    *)
(* engine: Init draws it from bounded families of stores.  A task row has  *)
(* the columns the engine reads: user_id, status, embedding, completed_at, *)
(* created_at, due_date, is_urgent, is_important.                          *)
(***************************************************************************)
EXTENDS Integers, Sequences, FiniteSets, TLC

VARIABLES tasks, now, call, window, ranked, raw, result, job, embedder, embed, runs

vars == <<tasks, now, call, window, ranked, raw, result, job, embedder, embed, runs>>

(***************************************************************************)
(* Bounds of the model.                                                    *)
(***************************************************************************)
\* number of task ids of the store
NumTasks == 6
\* largest top_k a request asks for (the handler accepts 1..10)
MaxTopK == 4
\* resolution of the clock
TicksPerDay == 2
\* stand-in for the window of 100 rows (.limit(100)), scaled so that a
\* store of NumTasks tasks can exceed it
WindowLimit == 4
\* the model stops counting the loads of the encoding model here
MaxLoads == 2
\* last tick of the clock of the repository
MaxClock == 3
\* number of runs of the background task that may be under way together
MaxRuns == 2

None == "None"

Users == {1, 2}
TaskIds == 1 .. NumTasks
\* an id no row has
MissingId == NumTasks + 1

Min(a, b) == IF a <= b THEN a ELSE b
Abs(a) == IF a < 0 THEN -a ELSE a

Range(s) == {s[i] : i \in 1 .. Len(s)}

RECURSIVE SumSeq(_)
SumSeq(s) == IF s = <<>> THEN 0 ELSE Head(s) + SumSeq(Tail(s))

(***************************************************************************)
(* Rationals n/d in lowest terms with d > 0.                               *)
(***************************************************************************)
RECURSIVE GCD(_, _)
GCD(a, b) == IF b = 0 THEN a ELSE GCD(b, a % b)

Rat(n, d) ==
    LET g == GCD(Abs(n), Abs(d))
    IN  IF d < 0 THEN [n |-> (-n) \div g, d |-> (-d) \div g]
        ELSE [n |-> n \div g, d |-> d \div g]
RLess(a, b) == a.n * b.d < b.n * a.d
RLeq(a, b) == a.n * b.d <= b.n * a.d
REq(a, b) == a.n * b.d = b.n * a.d
RMin(a, b) == IF RLeq(a, b) THEN a ELSE b
RAdd(a, b) == Rat(a.n * b.d + b.n * a.d, a.d * b.d)
RMul(a, b) == Rat(a.n * b.n, a.d * b.d)

\* floor of n/d for d > 0 (\div of TLC floors)
Floor(n, d) == n \div d

\* the integer nearest to n/d (d > 0), a tie going to the even one: the
\* rounding of round() and of the format specs .0f and .0%
RoundHalfEven(n, d) ==
    LET q == Floor(n, d)
        twice == 2 * (n - q * d)
    IN  IF twice < d THEN q
        ELSE IF twice > d THEN q + 1
        ELSE IF q % 2 = 0 THEN q ELSE q + 1

\* round(x, 2) on the exact value x = r.n / r.d, in hundredths
Round2(r) == RoundHalfEven(r.n * 100, r.d)

\* timedelta.days of a difference of two datetimes
Days(ticks) == Floor(ticks, TicksPerDay)

(***************************************************************************)
(* Embedding vectors.  embedding_service.py: compute_similarity            *)
(***************************************************************************)
\* embedding IS NULL
NoEmbedding == <<>>
\* a nullable timestamp is <<>> (NULL) or <<t>>
NoTime == <<>>
At(t) == <<t>>

\* vectors of the model; the name gives the cosine with EQuery in hundredths
EQuery == <<8, 6, 0, 0>>
V100h == <<4, 3, 0, 0>>
V90 == <<9, 3, 3, 1>>
V80 == <<10, 0, 0, 0>>
V60 == <<0, 10, 0, 0>>
V42 == <<3, 3, 9, 1>>
V30 == <<3, 1, 9, 3>>
VNeg80 == <<-10, 0, 0, 0>>
\* a vector stored by a model of another dimensionality
VShort == <<8, 6, 0>>

RECURSIVE Dot(_, _)
Dot(a, b) == IF a = <<>> THEN 0 ELSE Head(a) * Head(b) + Dot(Tail(a), Tail(b))

\* np.linalg.norm; the vectors of the model have integer norms
Norm(a) == CHOOSE r \in 0 .. 10 : r * r = Dot(a, a)

\* np.dot of two 1-d arrays raises ValueError when the lengths differ
ShapesAligned(a, b) == Len(a) = Len(b)

\* compute_similarity(embedding1, embedding2), in hundredths
compute_similarity(embedding1, embedding2) ==
    (Dot(embedding1, embedding2) * 100)
        \div (Norm(embedding1) * Norm(embedding2))

(***************************************************************************)
(* The tasks table.  app/models/task.py, and the embedding column of       *)
(* alembic/versions/2a3b4c5d6e7f_add_pgvector_support.py                   *)
(***************************************************************************)
Row(u, st, e, c, due, urg, imp) ==
    [present |-> TRUE, user_id |-> u, status |-> st, embedding |-> e,
     completed_at |-> c, created_at |-> -400 * TicksPerDay, due_date |-> due,
     is_urgent |-> urg, is_important |-> imp]

\* no row with this id
NoRow ==
    [present |-> FALSE, user_id |-> 0, status |-> "TODO", embedding |-> NoEmbedding,
     completed_at |-> NoTime, created_at |-> 0, due_date |-> NoTime,
     is_urgent |-> FALSE, is_important |-> FALSE]

\* Task.quadrant
quadrant(t) ==
    IF t.is_urgent /\ t.is_important THEN "DO_FIRST"
    ELSE IF ~t.is_urgent /\ t.is_important THEN "SCHEDULE"
    ELSE IF t.is_urgent /\ ~t.is_important THEN "DELEGATE"
    ELSE "ELIMINATE"

\* completion times of the stores: 10, 60 and 100 days before tick 0
Ago100 == At(-100 * TicksPerDay)
Ago60 == At(-60 * TicksPerDay)
Ago10 == At(-10 * TicksPerDay)

(***************************************************************************)
(* PrioritySuggestionService._find_similar_tasks                           *)
(***************************************************************************)
\* the history query without its user filter
EligibleAnyUser(store, user_id) ==
    {i \in TaskIds :
        /\ store[i].present
        /\ store[i].status = "DONE"
        /\ store[i].embedding # NoEmbedding
        /\ store[i].completed_at # NoTime}

\* the history query without its status filter
EligibleAnyStatus(store, user_id) ==
    {i \in TaskIds :
        /\ store[i].present
        /\ store[i].user_id = user_id
        /\ store[i].embedding # NoEmbedding
        /\ store[i].completed_at # NoTime}

\* the WHERE clause of the history query (lines 236-243)
Eligible(store, user_id) ==
    {i \in TaskIds :
        /\ store[i].present
        /\ store[i].user_id = user_id
        /\ store[i].status = "DONE"
        /\ store[i].embedding # NoEmbedding
        /\ store[i].completed_at # NoTime}

Injective(s) == \A i, j \in 1 .. Len(s) : s[i] = s[j] => i = j

\* ORDER BY completed_at DESC: every listing of the rows the database may
\* return (rows of equal completed_at come in any order)
RECURSIVE OrderByCompletedAtDesc(_, _)
OrderByCompletedAtDesc(store, S) ==
    IF S = {} THEN {<<>>}
    ELSE LET latest == {i \in S : \A j \in S :
                           store[i].completed_at[1] >= store[j].completed_at[1]}
         IN  UNION {{<<i>> \o s : s \in OrderByCompletedAtDesc(store, S \ {i})} :
                       i \in latest}

\* .limit(100)
Limit(s) == SubSeq(s, 1, Min(Len(s), WindowLimit))

\* the lists result.scalars().all() may be (lines 234-248)
HistoryQuery(store, user_id) ==
    {Limit(s) : s \in OrderByCompletedAtDesc(store, Eligible(store, user_id))}

\* lines 259-266: the (task, similarity) pairs, in the order of the rows
Similarities(store, query_embedding, rows) ==
    [i \in 1 .. Len(rows) |->
        [id |-> rows[i],
         similarity |-> compute_similarity(query_embedding, store[rows[i]].embedding)]]

\* list.sort(key=similarity, reverse=True): stable, equal keys keep their
\* order (line 269)
RECURSIVE InsertDesc(_, _)
InsertDesc(sorted, x) ==
    IF sorted = <<>> THEN <<x>>
    ELSE IF Head(sorted).similarity >= x.similarity
         THEN <<Head(sorted)>> \o InsertDesc(Tail(sorted), x)
         ELSE <<x>> \o sorted

RECURSIVE SortDesc(_)
SortDesc(s) ==
    IF s = <<>> THEN <<>>
    ELSE InsertDesc(SortDesc(SubSeq(s, 1, Len(s) - 1)), s[Len(s)])

\* a slice one entry too long
TopKPlusOne(s, top_k) == SubSeq(s, 1, Min(Len(s), top_k + 1))

\* similarities[:top_k] (line 273)
TopK(s, top_k) == SubSeq(s, 1, Min(Len(s), top_k))

\* some stored vector cannot be multiplied with the query vector
ShapeError(store, query_embedding, rows) ==
    \E i \in 1 .. Len(rows) : ~ShapesAligned(query_embedding, store[rows[i]].embedding)

\* a search that leaves out the stored vectors it cannot multiply
FindSimilarSkippingShapes(store, query_embedding, rows, top_k) ==
    LET aligned == SelectSeq(rows,
                       LAMBDA i : ShapesAligned(query_embedding, store[i].embedding))
    IN  [exc |-> None,
         top_tasks |-> TopK(SortDesc(Similarities(store, query_embedding, aligned)), top_k)]

\* _find_similar_tasks(embedding, user_id, top_k) over the rows the query
\* returned: the ranked tasks with their .similarity, or the exception
find_similar_tasks(store, query_embedding, rows, top_k) ==
    IF ShapeError(store, query_embedding, rows)
    THEN [exc |-> "ValueError: shapes not aligned", top_tasks |-> <<>>]
    ELSE [exc |-> None,
          top_tasks |-> TopK(SortDesc(Similarities(store, query_embedding, rows)), top_k)]

(***************************************************************************)
(* The scorer.  priority_suggestion_service.py, lines 288-428              *)
(***************************************************************************)
\* a table whose 0.6 row runs to day 8
UrgencyWeekOfEight(task, clock) ==
    IF task.due_date = NoTime THEN Rat(1, 10)
    ELSE LET days_until_due == Days(task.due_date[1] - clock)
         IN  IF days_until_due <= 1 THEN Rat(10, 10)
             ELSE IF days_until_due <= 3 THEN Rat(8, 10)
             ELSE IF days_until_due <= 8 THEN Rat(6, 10)
             ELSE IF days_until_due <= 14 THEN Rat(4, 10)
             ELSE IF days_until_due <= 30 THEN Rat(2, 10)
             ELSE Rat(1, 10)

\* _calculate_urgency_score(task), read at time clock
calculate_urgency_score(task, clock) ==
    IF task.due_date = NoTime THEN Rat(1, 10)
    ELSE LET days_until_due == Days(task.due_date[1] - clock)
         IN  IF days_until_due < 0 THEN Rat(10, 10)
             ELSE IF days_until_due <= 1 THEN Rat(10, 10)
             ELSE IF days_until_due <= 3 THEN Rat(8, 10)
             ELSE IF days_until_due <= 7 THEN Rat(6, 10)
             ELSE IF days_until_due <= 14 THEN Rat(4, 10)
             ELSE IF days_until_due <= 30 THEN Rat(2, 10)
             ELSE Rat(1, 10)

\* the loop of lines 351-356; similarities are hundredths, so both sums
\* are whole numbers of hundredths
ImportantWeight(store, e) == IF store[e.id].is_important THEN e.similarity ELSE 0

weighted_sum(store, similar_tasks) ==
    SumSeq([i \in 1 .. Len(similar_tasks) |-> ImportantWeight(store, similar_tasks[i])])

total_weight(similar_tasks) ==
    SumSeq([i \in 1 .. Len(similar_tasks) |-> similar_tasks[i].similarity])

\* the share of the important tasks, every task counting the same
ImportanceUnweighted(store, similar_tasks) ==
    IF similar_tasks = <<>> THEN Rat(1, 2)
    ELSE Rat(Cardinality({i \in 1 .. Len(similar_tasks) :
                             store[similar_tasks[i].id].is_important}),
             Len(similar_tasks))

\* _calculate_importance_score(similar_tasks)
calculate_importance_score(store, similar_tasks) ==
    IF similar_tasks = <<>> THEN Rat(1, 2)
    ELSE IF total_weight(similar_tasks) = 0 THEN Rat(1, 2)
    ELSE Rat(weighted_sum(store, similar_tasks), total_weight(similar_tasks))

important_count(store, similar_tasks) ==
    Cardinality({i \in 1 .. Len(similar_tasks) : store[similar_tasks[i].id].is_important})

\* a recency read off the last candidate instead of the first
RecencyOfLast(store, similar_tasks, clock) ==
    LET last == similar_tasks[Len(similar_tasks)].id
    IN  IF store[last].completed_at # NoTime
        THEN LET days_since == Days(clock - store[last].completed_at[1])
             IN  IF days_since <= 30 THEN Rat(10, 10)
                 ELSE IF days_since <= 90 THEN Rat(7, 10)
                 ELSE Rat(5, 10)
        ELSE Rat(5, 10)

\* factor 4 of the confidence (lines 405-417)
recency_factor(store, similar_tasks, clock) ==
    IF store[similar_tasks[1].id].completed_at # NoTime
    THEN LET days_since == Days(clock - store[similar_tasks[1].id].completed_at[1])
         IN  IF days_since <= 30 THEN Rat(10, 10)
             ELSE IF days_since <= 90 THEN Rat(7, 10)
             ELSE Rat(5, 10)
    ELSE Rat(5, 10)

\* the four factors of the confidence of a non-empty similar_tasks
\* (lines 387-417)
confidence_factors(store, similar_tasks, clock) ==
    LET n == Len(similar_tasks)
    IN  [avg_similarity |-> Rat(total_weight(similar_tasks), 100 * n),
         consistency |-> Rat(Abs(2 * important_count(store, similar_tasks) - n), n),
         count_factor |-> RMin(Rat(n, 5), Rat(1, 1)),
         recency_factor |-> recency_factor(store, similar_tasks, clock)]

\* the weighted combination (lines 420-425)
weighted_confidence(f) ==
    RAdd(RAdd(RMul(f.avg_similarity, Rat(4, 10)), RMul(f.consistency, Rat(3, 10))),
         RAdd(RMul(f.count_factor, Rat(2, 10)), RMul(f.recency_factor, Rat(1, 10))))

\* the combination returned as it is
ConfidenceUncapped(store, similar_tasks, clock) ==
    IF similar_tasks = <<>> THEN Rat(3, 10)
    ELSE weighted_confidence(confidence_factors(store, similar_tasks, clock))

\* _calculate_confidence(similar_tasks, urgency_score, importance_score)
calculate_confidence(store, similar_tasks, clock) ==
    IF similar_tasks = <<>> THEN Rat(3, 10)
    ELSE RMin(weighted_confidence(confidence_factors(store, similar_tasks, clock)),
              Rat(95, 100))

\* the derivation with SCHEDULE and DELEGATE exchanged
QuadrantExchanged(is_urgent, is_important) ==
    IF is_urgent /\ is_important THEN "DO_FIRST"
    ELSE IF ~is_urgent /\ is_important THEN "DELEGATE"
    ELSE IF is_urgent /\ ~is_important THEN "SCHEDULE"
    ELSE "ELIMINATE"

\* _get_quadrant(is_urgent, is_important)
get_quadrant(is_urgent, is_important) ==
    IF is_urgent /\ is_important THEN "DO_FIRST"
    ELSE IF ~is_urgent /\ is_important THEN "SCHEDULE"
    ELSE IF is_urgent /\ ~is_important THEN "DELEGATE"
    ELSE "ELIMINATE"

(***************************************************************************)
(* _generate_explanation: the text is the sequence of its parts; a part is *)
(* a template and the numbers put into it.                                 *)
(***************************************************************************)
Part(s, a, b, c) == [s |-> s, a |-> a, b |-> b, c |-> c]

\* part 1 (lines 462-479)
UrgencyPart(task, clock) ==
    IF task.due_date # NoTime
    THEN LET days == Days(task.due_date[1] - clock)
         IN  IF days < 0 THEN Part("This task is overdue by {a} day(s). ", Abs(days), 0, 0)
             ELSE IF days = 0 THEN Part("This task is due today. ", 0, 0, 0)
             ELSE IF days = 1 THEN Part("This task is due tomorrow. ", 0, 0, 0)
             ELSE IF days <= 7 THEN Part("This task is due in {a} days. ", days, 0, 0)
             ELSE IF days <= 30 THEN Part("This task is due in {a} days. ", days, 0, 0)
             ELSE Part("This task is due in {a} days (plenty of time). ", days, 0, 0)
    ELSE Part("No deadline set for this task. ", 0, 0, 0)

\* (t.completed_at - t.created_at).days of the tasks with a completed_at
completion_times(store, similar_tasks) ==
    LET done == SelectSeq(similar_tasks, LAMBDA e : store[e.id].completed_at # NoTime)
    IN  [i \in 1 .. Len(done) |->
            Days(store[done[i].id].completed_at[1] - store[done[i].id].created_at)]

SeqMin(s) == CHOOSE x \in Range(s) : \A y \in Range(s) : x <= y
SeqMax(s) == CHOOSE x \in Range(s) : \A y \in Range(s) : x >= y

\* part 2 (lines 482-531)
HistoryParts(store, similar_tasks) ==
    IF similar_tasks # <<>>
    THEN LET n == Len(similar_tasks)
             cnt == important_count(store, similar_tasks)
             pct == RoundHalfEven(cnt * 100, n)
             times == completion_times(store, similar_tasks)
         IN  <<Part("Based on {a} similar task(s) (average similarity: {b}%), ",
                    n, RoundHalfEven(total_weight(similar_tasks), n), 0)>>
             \o <<IF cnt * 100 >= 70 * n
                  THEN Part("{a}% were marked as important. ", pct, 0, 0)
                  ELSE IF cnt * 100 >= 40 * n
                  THEN Part("about half ({a}%) were important. ", pct, 0, 0)
                  ELSE Part("only {a}% were marked as important. ", pct, 0, 0)>>
             \o (IF times = <<>> THEN <<>>
                 ELSE IF SeqMin(times) = SeqMax(times)
                 THEN <<Part("Similar tasks took about {a} day(s) to complete. ",
                             RoundHalfEven(SumSeq(times), Len(times)), 0, 0)>>
                 ELSE <<Part("Similar tasks took {a}-{b} days (average: {c} days) to complete. ",
                             SeqMin(times), SeqMax(times),
                             RoundHalfEven(SumSeq(times), Len(times)))>>)
    ELSE <<Part("No similar completed tasks found in your history. This suggestion is based solely on the deadline. ",
                0, 0, 0)>>

\* quadrant_actions (lines 536-541)
quadrant_actions(q) ==
    IF q = "DO_FIRST" THEN "Recommendation: Do this first"
    ELSE IF q = "SCHEDULE" THEN "Recommendation: Schedule dedicated time for this"
    ELSE IF q = "DELEGATE" THEN "Recommendation: Consider delegating if possible"
    ELSE "Recommendation: Question if this is necessary"

\* _generate_explanation(task, similar_tasks, ..., suggested_urgent, suggested_important)
generate_explanation(store, task, similar_tasks, clock, suggested_urgent, suggested_important) ==
    <<UrgencyPart(task, clock)>>
    \o HistoryParts(store, similar_tasks)
    \o <<Part(quadrant_actions(get_quadrant(suggested_urgent, suggested_important)), 0, 0, 0)>>

\* the reasoning of _fallback_suggestion (lines 601-607)
FallbackReasoning(suggested_urgent) ==
    <<Part("No similar historical tasks found in your completed tasks. ", 0, 0, 0),
      Part("This suggestion is based only on the deadline. ", 0, 0, 0),
      IF suggested_urgent
      THEN Part("Task is urgent based on deadline. ", 0, 0, 0)
      ELSE Part("No urgency based on deadline. ", 0, 0, 0),
      Part("As you complete more tasks, suggestions will become more personalized and accurate. ", 0, 0, 0),
      Part("Consider marking this task as important based on your own judgment.", 0, 0, 0)>>

(***************************************************************************)
(* PrioritySuggestionService.suggest_priority and _fallback_suggestion     *)
(***************************************************************************)
NoExc == [type |-> None, msg |-> None]
Exc(type, msg) == [type |-> type, msg |-> msg]

\* the dict suggest_priority returns; scores are hundredths (round(x, 2))
NoSuggestion ==
    [task_id |-> 0, suggested_urgent |-> FALSE, suggested_important |-> FALSE,
     suggested_quadrant |-> None, urgency_score |-> 0, importance_score |-> 0,
     confidence |-> 0, reasoning |-> <<>>, similar_tasks |-> <<>>]

\* the scores before rounding, and the path that computed them
NoRaw ==
    [path |-> "none", urgency |-> Rat(0, 1), importance |-> Rat(0, 1),
     confidence |-> Rat(0, 1)]

\* an entry of "similar_tasks" (lines 186-203)
SimilarTaskInfo(store, e) ==
    [id |-> e.id,
     similarity |-> e.similarity,
     was_urgent |-> store[e.id].is_urgent,
     was_important |-> store[e.id].is_important,
     quadrant |-> quadrant(store[e.id]),
     completion_time_days |->
         IF store[e.id].completed_at # NoTime
         THEN At(Days(store[e.id].completed_at[1] - store[e.id].created_at))
         ELSE NoTime,
     created_at |-> store[e.id].created_at,
     completed_at |-> store[e.id].completed_at]

\* a response that lists every ranked task
TopAll(similar_tasks) == similar_tasks

\* similar_tasks[:3] (line 204)
Top3(similar_tasks) == SubSeq(similar_tasks, 1, Min(Len(similar_tasks), 3))

\* a fallback that reports the urgency alone as full evidence
FallbackSure(task_id, task, clock) ==
    LET urgency_score == calculate_urgency_score(task, clock)
        suggested_urgent == RLess(Rat(1, 2), urgency_score)
    IN  [value |->
            [task_id |-> task_id,
             suggested_urgent |-> suggested_urgent,
             suggested_important |-> FALSE,
             suggested_quadrant |-> IF suggested_urgent THEN "DELEGATE" ELSE "ELIMINATE",
             urgency_score |-> Round2(urgency_score),
             importance_score |-> 50,
             confidence |-> 95,
             reasoning |-> FallbackReasoning(suggested_urgent),
             similar_tasks |-> <<>>],
         raw |->
            [path |-> "fallback", urgency |-> urgency_score,
             importance |-> Rat(1, 2), confidence |-> Rat(95, 100)]]

\* a fallback that names the quadrant of an urgent and important task
FallbackDoFirst(task_id, task, clock) ==
    LET urgency_score == calculate_urgency_score(task, clock)
        suggested_urgent == RLess(Rat(1, 2), urgency_score)
    IN  [value |->
            [task_id |-> task_id,
             suggested_urgent |-> suggested_urgent,
             suggested_important |-> FALSE,
             suggested_quadrant |-> IF suggested_urgent THEN "DO_FIRST" ELSE "ELIMINATE",
             urgency_score |-> Round2(urgency_score),
             importance_score |-> 50,
             confidence |-> 30,
             reasoning |-> FallbackReasoning(suggested_urgent),
             similar_tasks |-> <<>>],
         raw |->
            [path |-> "fallback", urgency |-> urgency_score,
             importance |-> Rat(1, 2), confidence |-> Rat(3, 10)]]

\* _fallback_suggestion(task)
fallback_suggestion(task_id, task, clock) ==
    LET urgency_score == calculate_urgency_score(task, clock)
        suggested_urgent == RLess(Rat(1, 2), urgency_score)
        suggested_important == FALSE
    IN  [value |->
            [task_id |-> task_id,
             suggested_urgent |-> suggested_urgent,
             suggested_important |-> suggested_important,
             suggested_quadrant |-> IF suggested_urgent THEN "DELEGATE" ELSE "ELIMINATE",
             urgency_score |-> Round2(urgency_score),
             importance_score |-> 50,
             confidence |-> 30,
             reasoning |-> FallbackReasoning(suggested_urgent),
             similar_tasks |-> <<>>],
         raw |->
            [path |-> "fallback", urgency |-> urgency_score,
             importance |-> Rat(1, 2), confidence |-> Rat(3, 10)]]

\* the flag read off the score the response shows
ImportantByShownScore(importance_score) == Round2(importance_score) > 50

\* suggested_important = importance_score > 0.5 (line 147)
suggested_important_of(importance_score) == RLess(Rat(1, 2), importance_score)

\* lines 141-206: the scored path
scored_suggestion(store, task_id, task, similar_tasks, clock) ==
    LET urgency_score == calculate_urgency_score(task, clock)
        importance_score == calculate_importance_score(store, similar_tasks)
        suggested_urgent == RLess(Rat(1, 2), urgency_score)
        suggested_important == suggested_important_of(importance_score)
        confidence == calculate_confidence(store, similar_tasks, clock)
    IN  [value |->
            [task_id |-> task_id,
             suggested_urgent |-> suggested_urgent,
             suggested_important |-> suggested_important,
             suggested_quadrant |-> get_quadrant(suggested_urgent, suggested_important),
             urgency_score |-> Round2(urgency_score),
             importance_score |-> Round2(importance_score),
             confidence |-> Round2(confidence),
             reasoning |-> generate_explanation(store, task, similar_tasks, clock,
                                                suggested_urgent, suggested_important),
             similar_tasks |->
                 [i \in 1 .. Len(Top3(similar_tasks)) |->
                     SimilarTaskInfo(store, similar_tasks[i])]],
         raw |->
            [path |-> "scored", urgency |-> urgency_score,
             importance |-> importance_score, confidence |-> confidence]]

\* what the object held as self.db offers: an AsyncSession has execute(),
\* a TaskRepository (task_repository.py, lines 15-17) has not
HasExecute(db) == db = "AsyncSession"

\* SELECT ... WHERE Task.id == task_id AND Task.user_id == user_id (lines 100-108)
CurrentTaskFound(store, task_id, user_id) ==
    /\ task_id \in TaskIds
    /\ store[task_id].present
    /\ store[task_id].user_id = user_id

Raised(exc, searched) ==
    [exc |-> exc, value |-> NoSuggestion, raw |-> NoRaw, top_tasks |-> <<>>,
     searched |-> searched]

\* suggest_priority(task_id, user_id, top_k) of a service built on db, at time
\* clock, when the history query returns rows
suggest_priority(db, store, clock, rows, task_id, user_id, top_k) ==
    IF ~HasExecute(db)
    THEN Raised(Exc("AttributeError", "object has no attribute 'execute'"), FALSE)
    ELSE IF ~CurrentTaskFound(store, task_id, user_id)
    THEN Raised(Exc("ValueError", "Task {task_id} not found for user {user_id}"), FALSE)
    ELSE IF store[task_id].embedding = NoEmbedding
    THEN Raised(Exc("ValueError", "Task {task_id} has no embedding. ..."), FALSE)
    ELSE LET found == find_similar_tasks(store, store[task_id].embedding, rows, top_k)
         IN  IF found.exc # None
             THEN Raised(Exc("ValueError", "shapes not aligned"), TRUE)
             ELSE LET s == IF found.top_tasks = <<>>
                           THEN fallback_suggestion(task_id, store[task_id], clock)
                           ELSE scored_suggestion(store, task_id, store[task_id],
                                                  found.top_tasks, clock)
                  IN  [exc |-> NoExc, value |-> s.value, raw |-> s.raw,
                       top_tasks |-> found.top_tasks, searched |-> TRUE]

(***************************************************************************)
(* The HTTP handlers.  app/api/endpoints/ai_priority.py                    *)
(***************************************************************************)
\* `"not found" in str(e).lower() or "does not belong" in str(e).lower()`
SaysNotFound(msg) ==
    msg \in {"Task {task_id} not found for user {user_id}",
             "Task {task_id} not found or does not belong to current user"}

\* `"no embedding" in str(e).lower()`
SaysNoEmbedding(msg) == msg = "Task {task_id} has no embedding. ..."

\* the except clauses of get_priority_suggestion (lines 176-204)
SuggestionStatus(exc) ==
    IF exc.type = None THEN 200
    ELSE IF exc.type = "ValueError"
    THEN IF SaysNotFound(exc.msg) THEN 404
         ELSE IF SaysNoEmbedding(exc.msg) THEN 422
         ELSE 400
    ELSE 500

\* get_priority_suggestion: the service is built on the TaskRepository
\* (lines 156-157), and its outcome is mapped to a response
get_priority_suggestion(store, clock, rows, task_id, user_id, top_k) ==
    LET out == suggest_priority("TaskRepository", store, clock, rows, task_id, user_id, top_k)
    IN  [status |-> SuggestionStatus(out.exc), out |-> out]

\* TaskRepository.get_by_id(task_id, user_id) called with the arguments args:
\* a call without user_id raises TypeError (task_repository.py, lines 59-69)
get_by_id(store, args) ==
    IF Len(args) # 2
    THEN [exc |-> Exc("TypeError", "missing 1 required positional argument: 'user_id'"),
          found |-> FALSE]
    ELSE [exc |-> NoExc, found |-> CurrentTaskFound(store, args[1], args[2])]

\* the values of TaskUpdate.status: None (the update leaves the status) or
\* a status
StatusUpdates == {None, "TODO", "IN_PROGRESS", "DONE"}

\* an update that stamps the completion time at every update to DONE
UpdateRestamping(store, clock, task_id, user_id, task_update) ==
    IF ~get_by_id(store, <<task_id, user_id>>).found
    THEN [store |-> store, exc |-> Exc("TaskNotFoundException", "Task not found")]
    ELSE LET db_task == IF task_update.status # None
                        THEN [store[task_id] EXCEPT !.status = task_update.status]
                        ELSE store[task_id]
         IN  [store |-> [store EXCEPT ![task_id] =
                            IF task_update.status = "DONE"
                            THEN [db_task EXCEPT !.completed_at = At(clock)]
                            ELSE db_task],
              exc |-> NoExc]

\* TaskRepository.update(task_id, user_id, task_update) at time clock
\* (task_repository.py, lines 127-180): the task is fetched for its owner
\* (lines 130-133), the fields of the update that are not None are set
\* (lines 139-142), and completed_at is set to the time of the update when
\* the update says DONE and the task has no completed_at (lines 160-163)
update(store, clock, task_id, user_id, task_update) ==
    IF ~get_by_id(store, <<task_id, user_id>>).found
    THEN [store |-> store, exc |-> Exc("TaskNotFoundException", "Task not found")]
    ELSE LET db_task == IF task_update.status # None
                        THEN [store[task_id] EXCEPT !.status = task_update.status]
                        ELSE store[task_id]
         IN  [store |-> [store EXCEPT ![task_id] =
                            IF task_update.status = "DONE" /\ db_task.completed_at = NoTime
                            THEN [db_task EXCEPT !.completed_at = At(clock)]
                            ELSE db_task],
              exc |-> NoExc]

\* find_similar_tasks (lines 313-360): the status of the response; the task
\* is fetched with get_by_id(task_id), and any exception but HTTPException
\* becomes a 500
find_similar_tasks_status(store, task_id, user_id) ==
    LET got == get_by_id(store, <<task_id>>)
    IN  IF got.exc.type # None THEN 500
        ELSE IF ~got.found \/ store[task_id].user_id # user_id THEN 404
        ELSE IF store[task_id].embedding = NoEmbedding THEN 422
        \* _find_similar_tasks() takes no query_embedding, min_similarity or
        \* completed_only keyword (lines 330-336): TypeError
        ELSE 500

(***************************************************************************)
(* The embedding service of the process.  embedding_service.py             *)
(***************************************************************************)
\* the process before get_embedding_service() was ever called: no service,
\* no model; loads counts the SentenceTransformer objects constructed
\* _embedding_dim: None, or the integer read from the model
NoDim == <<>>

NoEmbedder == [service |-> None, model |-> None, embedding_dim |-> NoDim, loads |-> 0]

\* get_embedding_service() under lru_cache(maxsize=1) (lines 313-331): the
\* first call constructs the service with _model = None and
\* _embedding_dim = None (lines 39-52), the later ones return it
get_embedding_service(e) ==
    IF e.service = None
    THEN [e EXCEPT !.service = "EmbeddingService", !.model = None, !.embedding_dim = NoDim]
    ELSE e

\* what the two statements of the try block of the model property can do
\* (lines 76-78): both succeed, SentenceTransformer(...) raises, or
\* get_sentence_embedding_dimension() raises
LoadOutcomes == {"loaded", "load fails", "dimension fails"}

\* the dimensionality of the vectors of the model (384 in the code)
EmbeddingDim == Len(EQuery)

\* a property that constructs the model at every access
ModelReloaded(e, load) ==
    IF load = "loaded"
    THEN [e EXCEPT !.model = "SentenceTransformer", !.embedding_dim = <<EmbeddingDim>>,
                   !.loads = @ + 1]
    ELSE IF load = "dimension fails"
    THEN [e EXCEPT !.model = "SentenceTransformer", !.loads = @ + 1]
    ELSE e

\* EmbeddingService.model (lines 59-93): the model is constructed when
\* _model is None.  _model is assigned (line 77) before the dimension is
\* read (line 78), and the except clause (lines 86-91) raises RuntimeError
\* without undoing an assignment
model(e, load) ==
    IF e.model = None
    THEN IF load = "loaded"
         THEN [e EXCEPT !.model = "SentenceTransformer", !.embedding_dim = <<EmbeddingDim>>,
                        !.loads = @ + 1]
         ELSE IF load = "dimension fails"
         THEN [e EXCEPT !.model = "SentenceTransformer", !.loads = @ + 1]
         ELSE e
    ELSE e

\* the access of the model property raises RuntimeError
ModelRaises(e, load) == e.model = None /\ load # "loaded"

\* get_embedding_dim() (lines 95-105): the value returned, or the
\* RuntimeError of the model property
get_embedding_dim(e, load) ==
    IF e.embedding_dim = NoDim
    THEN [embedder |-> model(e, load),
          exc |-> IF ModelRaises(e, load)
                  THEN Exc("RuntimeError", "Could not load embedding model")
                  ELSE NoExc,
          value |-> IF ModelRaises(e, load) THEN NoDim ELSE model(e, load).embedding_dim]
    ELSE [embedder |-> e, exc |-> NoExc, value |-> e.embedding_dim]

\* a text is a sequence of characters
Space == " "

\* str.strip(): the text without its leading and trailing whitespace
RECURSIVE LStrip(_)
LStrip(text) ==
    IF text # <<>> /\ Head(text) = Space THEN LStrip(Tail(text)) ELSE text

RECURSIVE RStrip(_)
RStrip(text) ==
    IF text # <<>> /\ text[Len(text)] = Space
    THEN RStrip(SubSeq(text, 1, Len(text) - 1))
    ELSE text

Strip(text) == RStrip(LStrip(text))

\* description: Optional[str] = None
NoDescription == <<"None">>

\* `if description:` (line 138): neither None nor the empty string
Truthy(description) == description # NoDescription /\ description # <<>>

\* f"{title} {title} {description}" or f"{title} {title}" (lines 138-141)
CombinedText(title, description) ==
    IF Truthy(description)
    THEN title \o <<Space>> \o title \o <<Space>> \o description
    ELSE title \o <<Space>> \o title

NoEmbed ==
    [op |-> None, title |-> <<>>, description |-> NoDescription, text |-> <<>>,
     encode_called |-> FALSE, exc |-> NoExc, embedding |-> NoEmbedding, dim |-> NoDim]

\* generate_task_embedding(title, description) (lines 107-175): the text is
\* combined and stripped, an empty text raises ValueError before the model
\* is read (lines 144-147); self.model.encode(text) stands in a try block
\* whose except clause turns every exception, the RuntimeError of the model
\* property included, into RuntimeError (lines 149-175)
generate_task_embedding(e, title, description, load, encode_ok) ==
    LET text == Strip(CombinedText(title, description))
        answer == [NoEmbed EXCEPT !.op = "generate_task_embedding", !.title = title,
                                  !.description = description, !.text = text]
    IN  IF text = <<>>
        THEN [embedder |-> e,
              embed |-> [answer EXCEPT !.exc = Exc("ValueError",
                                         "Cannot generate embedding from empty text")]]
        ELSE IF ModelRaises(e, load)
        THEN [embedder |-> model(e, load),
              embed |-> [answer EXCEPT !.exc = Exc("RuntimeError",
                                                   "Embedding generation failed")]]
        ELSE IF ~encode_ok
        THEN [embedder |-> model(e, load),
              embed |-> [answer EXCEPT !.encode_called = TRUE,
                                       !.exc = Exc("RuntimeError",
                                                   "Embedding generation failed")]]
        ELSE [embedder |-> model(e, load),
              embed |-> [answer EXCEPT !.encode_called = TRUE, !.embedding = EQuery]]

\* health_check (lines 565-592): the service is fetched and a test text is
\* encoded, which reads the model; any exception is answered "unhealthy"
health_check(e, load) ==
    LET service == get_embedding_service(e)
    IN  [embedder |-> model(service, load),
         status |-> IF ModelRaises(service, load) THEN "unhealthy" ELSE "healthy"]

(***************************************************************************)
(* The bulk backfill.  ai_priority.py, lines 406-553                       *)
(***************************************************************************)
\* the methods of TaskRepository (task_repository.py)
RepositoryMethods == {"create", "get_by_id", "get_all", "update", "delete", "get_stats"}

\* the ids of the tasks of the user, in the order of the ids: what line 439
\* asks the repository for
TasksOfUser(store, user_id) ==
    SelectSeq([i \in 1 .. Len(store) |-> i],
              LAMBDA i : store[i].present /\ store[i].user_id = user_id)

\* an endpoint that hands every task of the user to the background task
GenerateEmbeddingsAlways(store, user_id, force_regenerate) ==
    [status |-> 200, body |-> "background_task_started",
     task_ids |-> TasksOfUser(store, user_id)]

\* generate_embeddings (lines 437-482): the response and the ids handed to
\* the background task; get_all_by_user is no method of the repository
\* (line 439), and every exception becomes a 500
generate_embeddings(store, user_id, force_regenerate) ==
    IF "get_all_by_user" \notin RepositoryMethods
    THEN [status |-> 500, body |-> "None", task_ids |-> <<>>]
    ELSE LET tasks_to_process ==
                 IF force_regenerate
                 THEN TasksOfUser(store, user_id)
                 ELSE SelectSeq(TasksOfUser(store, user_id),
                                LAMBDA i : store[i].embedding = NoEmbedding)
         IN  IF tasks_to_process = <<>>
             THEN [status |-> 200, body |-> "nothing_to_do", task_ids |-> <<>>]
             ELSE [status |-> 200, body |-> "background_task_started",
                   task_ids |-> tasks_to_process]

\* the locals of _generate_embeddings_background: the ids, the position of
\* the loop and the counters; visited lists the ids the loop has handled,
\* stored is the set of ids whose embedding the run has committed
NoJob ==
    [state |-> "none", task_ids |-> <<>>, user_id |-> 0, pos |-> 0,
     processed |-> 0, errors |-> 0, visited |-> <<>>, stored |-> {}]

NewJob(task_ids, user_id) ==
    [state |-> "running", task_ids |-> task_ids, user_id |-> user_id, pos |-> 1,
     processed |-> 0, errors |-> 0, visited |-> <<>>, stored |-> {}]

\* what generate_task_embedding may do for a task: return a vector or raise
EncoderOutcomes ==
    {[exc |-> NoExc, embedding |-> EQuery, load |-> "loaded"],
     [exc |-> Exc("RuntimeError", "Embedding generation failed"), embedding |-> NoEmbedding,
      load |-> "load fails"]}

\* a loop that ends at the first exception
JobStepAborting(store, j, enc) ==
    LET task_id == j.task_ids[j.pos]
        got == get_by_id(store, <<task_id>>)
    IN  IF got.exc.type # None \/ enc.exc.type # None
        THEN [store |-> store, encoding |-> FALSE,
              job |-> [j EXCEPT !.errors = @ + 1, !.pos = Len(j.task_ids) + 1,
                                !.visited = Append(@, task_id)]]
        ELSE [store |-> store, encoding |-> FALSE,
              job |-> [j EXCEPT !.pos = @ + 1, !.visited = Append(@, task_id)]]

\* a loop that fetches the task for the user of the run, so that its skip
\* branch is reached
JobStepFetching(store, j, enc) ==
    LET task_id == j.task_ids[j.pos]
        got == get_by_id(store, <<task_id, j.user_id>>)
        next == [j EXCEPT !.pos = @ + 1, !.visited = Append(@, task_id)]
    IN  IF ~got.found
        THEN [store |-> store, encoding |-> FALSE, job |-> next]
        ELSE IF enc.exc.type # None
        THEN [store |-> store, encoding |-> TRUE,
              job |-> [next EXCEPT !.errors = @ + 1]]
        ELSE [store |-> [store EXCEPT ![task_id].embedding = enc.embedding],
              encoding |-> TRUE,
              job |-> [next EXCEPT !.processed = @ + 1, !.stored = @ \cup {task_id}]]

\* one pass of the loop of _generate_embeddings_background (lines 509-544),
\* enc being what the encoder does if it is called; encoding tells whether
\* it was called
job_step(store, j, enc) ==
    LET task_id == j.task_ids[j.pos]
        \* task_repo.get_by_id(task_id), line 513
        got == get_by_id(store, <<task_id>>)
        next == [j EXCEPT !.pos = @ + 1, !.visited = Append(@, task_id)]
    IN  IF got.exc.type # None
        THEN [store |-> store, encoding |-> FALSE,
              job |-> [next EXCEPT !.errors = @ + 1]]
        ELSE IF ~got.found \/ store[task_id].user_id # j.user_id
        THEN [store |-> store, encoding |-> FALSE, job |-> next]
        ELSE IF enc.exc.type # None
        THEN [store |-> store, encoding |-> TRUE,
              job |-> [next EXCEPT !.errors = @ + 1]]
        ELSE [store |-> [store EXCEPT ![task_id].embedding = enc.embedding],
              encoding |-> TRUE,
              job |-> [next EXCEPT !.processed = @ + 1, !.stored = @ \cup {task_id}]]

(***************************************************************************)
(* The stores of the model.  Task 1 is the task a user asks about; the     *)
(* other ids hold the history.  The history rows of a store are listed in  *)
(* the order of their profile (no operation depends on the ids).           *)
(***************************************************************************)
HistoryIds == 2 .. NumTasks

Pending(u, e, due) == Row(u, "TODO", e, NoTime, due, FALSE, FALSE)
Done(u, e, c, imp) == Row(u, "DONE", e, c, NoTime, FALSE, imp)

Monotone(f) == \A i, j \in HistoryIds : i <= j => f[i] <= f[j]

StoresOf(query, profiles) ==
    {[i \in TaskIds |-> IF i = 1 THEN query ELSE profiles[f[i]]] :
        f \in {g \in [HistoryIds -> 1 .. Len(profiles)] : Monotone(g)}}

\* the search: eligible rows of two similarities and two ages each
SearchProfiles ==
    <<NoRow,
      Done(1, V80, Ago100, TRUE), Done(1, V80, Ago10, TRUE),
      Done(1, V60, Ago60, FALSE), Done(1, V60, Ago10, FALSE)>>

StoresSearch == StoresOf(Pending(1, EQuery, NoTime), SearchProfiles)

\* rows that fail one condition of the history query each, a row of the
\* other user, and at most one eligible row
StoresIneligible ==
    {[i \in TaskIds |->
        IF i = 1 THEN Pending(1, EQuery, NoTime)
        ELSE IF i = 2 THEN Done(2, V100h, Ago10, TRUE)
        ELSE IF i = 3 THEN Row(1, "TODO", V100h, Ago10, NoTime, FALSE, TRUE)
        ELSE IF i = 4 THEN Done(1, NoEmbedding, Ago10, TRUE)
        ELSE IF i = 5 THEN Done(1, V100h, NoTime, TRUE)
        ELSE IF i = 6 THEN h
        ELSE NoRow] :
        h \in {NoRow, Done(1, V80, Ago60, TRUE), Done(1, V60, Ago10, FALSE)}}

\* the task asked about has no embedding
StoresNoEmbedding ==
    {[i \in TaskIds |->
        IF i = 1 THEN Pending(1, NoEmbedding, NoTime)
        ELSE IF i = 2 THEN h
        ELSE NoRow] :
        h \in {NoRow, Done(1, NoEmbedding, Ago10, TRUE), Done(1, V80, Ago10, TRUE)}}

\* the deadline: due dates from 2 days ago to 32 days ahead
DueTicks == (-2 * TicksPerDay - 1) .. (32 * TicksPerDay + 1)

StoresUrgency ==
    {[i \in TaskIds |->
        IF i = 1 THEN Pending(1, EQuery, At(d))
        ELSE IF i = 2 THEN h
        ELSE NoRow] :
        d \in DueTicks, h \in {NoRow, Done(1, V80, Ago10, TRUE)}}

\* the scores: up to three eligible rows of many similarities, the row of a
\* higher id completed later
ScoreIds == {2, 3, 4}

ScoreVectors == <<V100h, V90, V80, V60, V42, V30, VNeg80>>

ScoreProfiles ==
    <<[e |-> NoEmbedding, imp |-> FALSE]>>
    \o [i \in 1 .. 2 * Len(ScoreVectors) |->
           [e |-> ScoreVectors[(i + 1) \div 2], imp |-> (i % 2 = 0)]]

StoresScore ==
    {[i \in TaskIds |->
        IF i = 1 THEN Pending(1, EQuery, NoTime)
        ELSE IF i \notin ScoreIds THEN NoRow
        ELSE IF ScoreProfiles[f[i]].e = NoEmbedding THEN NoRow
        ELSE Done(1, ScoreProfiles[f[i]].e, At((10 * i - 120) * TicksPerDay),
                  ScoreProfiles[f[i]].imp)] :
        f \in {g \in [ScoreIds -> 1 .. Len(ScoreProfiles)] :
                  \A i, j \in ScoreIds : i <= j => g[i] <= g[j]}}

\* a stored vector of another dimensionality
StoresDimension ==
    {[i \in TaskIds |->
        IF i = 1 THEN Pending(1, EQuery, NoTime)
        ELSE IF i = 2 THEN Done(1, VShort, Ago10, TRUE)
        ELSE IF i = 3 THEN h
        ELSE NoRow] :
        h \in {NoRow, Done(1, V80, Ago60, TRUE)}}

\* strong evidence: recently completed important tasks of the text of the
\* task asked about, as many as the window holds or one less
StoresStrong ==
    {[i \in TaskIds |->
        IF i = 1 THEN Pending(1, EQuery, NoTime)
        ELSE IF i <= n + 1 THEN Done(1, V100h, At(-i * TicksPerDay), TRUE)
        ELSE NoRow] :
        n \in {WindowLimit - 1, WindowLimit}}

\* the quadrants: a task due today or without due date, and one completed
\* task of each pair of flags
StoresQuadrant ==
    {[i \in TaskIds |->
        IF i = 1 THEN Pending(1, EQuery, due)
        ELSE IF i = 2 THEN Row(1, "DONE", V80, Ago10, NoTime, u, imp)
        ELSE NoRow] :
        due \in {NoTime, At(0)}, u \in BOOLEAN, imp \in BOOLEAN}

Stores ==
    StoresQuadrant \cup StoresSearch \cup StoresIneligible \cup StoresNoEmbedding \cup StoresUrgency \cup StoresScore
        \cup StoresDimension \cup StoresStrong

(***************************************************************************)
(* State, requests and responses.                                          *)
(***************************************************************************)
NoCall ==
    [op |-> "none", task_id |-> 0, user_id |-> 0, top_k |-> 0, min_similarity |-> 0,
     force |-> FALSE, status |-> None]

NoResult == [kind |-> "none", exc |-> NoExc, status |-> 0, value |-> NoSuggestion]

Init ==
    /\ tasks \in Stores
    /\ now = 0
    /\ call = NoCall
    /\ window = <<>>
    /\ ranked = <<>>
    /\ raw = NoRaw
    /\ result = NoResult
    /\ job = NoJob
    /\ embedder = NoEmbedder
    /\ embed = NoEmbed
    /\ runs = <<>>

\* the task asked about, a task of the history and an id no task has
RequestIds == {1, 2, MissingId}

\* a service that stores the flags it suggests on the task asked about
WriteBack(store, task_id, suggestion) ==
    IF suggestion = NoSuggestion THEN store
    ELSE [store EXCEPT ![task_id].is_urgent = suggestion.suggested_urgent,
                       ![task_id].is_important = suggestion.suggested_important]

\* the store after suggest_priority: the service assigns no attribute of a
\* task and never commits (lines 62-206 and 208-286)
StoreAfterSuggest(store, task_id, suggestion) == store

\* no request is being served
Idle == call.op = "none"

\* a direct call of PrioritySuggestionService(db).suggest_priority with an
\* AsyncSession as db
SuggestPriority(task_id, user_id, top_k) ==
    /\ Idle
    /\ \E rows \in HistoryQuery(tasks, user_id) :
        \E out \in {suggest_priority("AsyncSession", tasks, now, rows, task_id, user_id, top_k)} :
            /\ call' = [NoCall EXCEPT !.op = "suggest_priority", !.task_id = task_id,
                                      !.user_id = user_id, !.top_k = top_k]
            /\ window' = IF out.searched THEN rows ELSE <<>>
            /\ ranked' = out.top_tasks
            /\ raw' = out.raw
            /\ result' = [kind |-> IF out.exc.type = None THEN "returned" ELSE "raised",
                          exc |-> out.exc, status |-> 0, value |-> out.value]
            /\ tasks' = StoreAfterSuggest(tasks, task_id, out.value)
            \* PrioritySuggestionService.__init__ (line 60)
            /\ embedder' = get_embedding_service(embedder)
            /\ UNCHANGED <<embed, runs, now, job>>

\* POST /ai/priority/tasks/{task_id}/suggest
GetPrioritySuggestion(task_id, user_id, top_k) ==
    /\ Idle
    /\ \E rows \in HistoryQuery(tasks, user_id) :
        \E resp \in {get_priority_suggestion(tasks, now, rows, task_id, user_id, top_k)} :
            /\ call' = [NoCall EXCEPT !.op = "get_priority_suggestion", !.task_id = task_id,
                                      !.user_id = user_id, !.top_k = top_k]
            /\ window' = IF resp.out.searched THEN rows ELSE <<>>
            /\ ranked' = resp.out.top_tasks
            /\ raw' = resp.out.raw
            /\ result' = [kind |-> "http", exc |-> resp.out.exc, status |-> resp.status,
                          value |-> resp.out.value]
            /\ tasks' = StoreAfterSuggest(tasks, task_id, resp.out.value)
            /\ embedder' = get_embedding_service(embedder)
            /\ UNCHANGED <<embed, runs, now, job>>

\* GET /ai/priority/tasks/{task_id}/similar
FindSimilarTasks(task_id, user_id, limit, min_similarity) ==
    /\ Idle
    /\ call' = [NoCall EXCEPT !.op = "find_similar_tasks", !.task_id = task_id,
                              !.user_id = user_id, !.top_k = limit,
                              !.min_similarity = min_similarity]
    /\ window' = <<>>
    /\ ranked' = <<>>
    /\ raw' = NoRaw
    /\ result' = [kind |-> "http", exc |-> NoExc,
                  status |-> find_similar_tasks_status(tasks, task_id, user_id),
                  value |-> NoSuggestion]
    \* PrioritySuggestionService(task_repo), line 311
    /\ embedder' = get_embedding_service(embedder)
    /\ UNCHANGED <<embed, runs, tasks, now, job>>

\* POST /ai/priority/generate-embeddings
GenerateEmbeddings(user_id, force_regenerate) ==
    /\ Idle
    /\ LET resp == generate_embeddings(tasks, user_id, force_regenerate)
       IN  /\ call' = [NoCall EXCEPT !.op = "generate_embeddings", !.user_id = user_id,
                                     !.force = force_regenerate]
           /\ result' = [NoResult EXCEPT !.kind = "http", !.status = resp.status]
           /\ job' = IF resp.task_ids = <<>> THEN NoJob ELSE NewJob(resp.task_ids, user_id)
    \* line 435
    /\ embedder' = get_embedding_service(embedder)
    /\ UNCHANGED <<embed, runs, tasks, now, window, ranked, raw>>

\* a run of _generate_embeddings_background(task_ids, user_id) begins
GenerateEmbeddingsBackground(task_ids, user_id) ==
    /\ Idle
    /\ call' = [NoCall EXCEPT !.op = "generate_embeddings_background",
                              !.user_id = user_id]
    /\ job' = NewJob(task_ids, user_id)
    \* line 505
    /\ embedder' = get_embedding_service(embedder)
    /\ UNCHANGED <<embed, runs, tasks, now, window, ranked, raw, result>>

\* the loop of the background task handles its next id
JobStep ==
    /\ job.state = "running"
    /\ job.pos <= Len(job.task_ids)
    /\ \E enc \in EncoderOutcomes :
          LET next == job_step(tasks, job, enc)
          IN  /\ tasks' = next.store
              /\ job' = next.job
              /\ embedder' = IF next.encoding
                             THEN model(embedder, enc.load)
                             ELSE embedder
    /\ UNCHANGED <<embed, runs, now, call, window, ranked, raw, result>>

\* the loop is over; the final summary is logged (lines 549-553)
JobDone ==
    /\ job.state = "running"
    /\ job.pos > Len(job.task_ids)
    /\ job' = [job EXCEPT !.state = "done"]
    /\ UNCHANGED <<embed, runs, tasks, now, call, window, ranked, raw, result, embedder>>

\* the response is delivered or the background task has ended; the locals
\* of the handler are gone
Return ==
    /\ ~Idle
    /\ job.state # "running"
    /\ call' = NoCall
    /\ window' = <<>>
    /\ ranked' = <<>>
    /\ raw' = NoRaw
    /\ result' = NoResult
    /\ job' = NoJob
    /\ UNCHANGED <<embed, runs, tasks, now, embedder>>

\* GET /ai/priority/health, between two requests or at an await of the
\* background task; the handler has no await of its own
HealthCheck(load) ==
    /\ Idle \/ job.state = "running"
    /\ embedder.loads < MaxLoads
    /\ embedder' = health_check(embedder, load).embedder
    /\ UNCHANGED <<embed, runs, tasks, now, call, window, ranked, raw, result, job>>

\* the lists of ids a run of the background task is given
JobLists == {<<1, 2>>, <<MissingId, 1>>}

Next ==
    \/ \E task_id \in RequestIds, user_id \in Users, top_k \in 1 .. MaxTopK :
          SuggestPriority(task_id, user_id, top_k)
    \/ \E task_id \in RequestIds, user_id \in Users :
          GetPrioritySuggestion(task_id, user_id, MaxTopK)
    \/ \E task_id \in RequestIds, user_id \in Users, min_similarity \in {0, 50} :
          FindSimilarTasks(task_id, user_id, MaxTopK, min_similarity)
    \/ \E user_id \in Users, force_regenerate \in BOOLEAN :
          GenerateEmbeddings(user_id, force_regenerate)
    \/ \E task_ids \in JobLists : GenerateEmbeddingsBackground(task_ids, 1)
    \/ JobStep
    \/ JobDone
    \/ \E load \in LoadOutcomes : HealthCheck(load)
    \/ Return

Spec == Init /\ [][Next]_vars

(***************************************************************************)
(* The backfill on its own: requests of user 1 with force_regenerate =     *)
(* False and runs of the background task, each run advancing by one pass   *)
(* of its loop between the awaits, in any interleaving.                    *)
(***************************************************************************)
\* tasks 1 and 2 of user 1, each with or without embedding, and task 3 of
\* user 2 without
StoresBackfill ==
    {[i \in TaskIds |->
        IF i = 1 THEN Pending(1, e1, NoTime)
        ELSE IF i = 2 THEN Pending(1, e2, NoTime)
        ELSE IF i = 3 THEN Pending(2, NoEmbedding, NoTime)
        ELSE NoRow] :
        e1 \in {NoEmbedding, EQuery}, e2 \in {NoEmbedding, EQuery}}

InitBackfill ==
    /\ tasks \in StoresBackfill
    /\ now = 0
    /\ call = NoCall
    /\ window = <<>>
    /\ ranked = <<>>
    /\ raw = NoRaw
    /\ result = NoResult
    /\ job = NoJob
    /\ embedder = NoEmbedder
    /\ embed = NoEmbed
    /\ runs = <<>>

\* POST /ai/priority/generate-embeddings with force_regenerate = False;
\* background_tasks.add_task (lines 454-459) queues a run for the ids found
Backfill(user_id) ==
    /\ \E resp \in {generate_embeddings(tasks, user_id, FALSE)} :
          /\ Len(runs) < MaxRuns \/ resp.task_ids = <<>>
          /\ call' = [NoCall EXCEPT !.op = "generate_embeddings", !.user_id = user_id]
          /\ result' = [NoResult EXCEPT !.kind = "http", !.status = resp.status]
          /\ runs' = IF resp.task_ids = <<>> THEN runs
                     ELSE Append(runs, NewJob(resp.task_ids, user_id))
    /\ embedder' = get_embedding_service(embedder)
    /\ UNCHANGED <<tasks, now, window, ranked, raw, job, embed>>

\* a run of _generate_embeddings_background(task_ids, user_id) begins
StartRun(task_ids, user_id) ==
    /\ Len(runs) < MaxRuns
    /\ runs' = Append(runs, NewJob(task_ids, user_id))
    /\ embedder' = get_embedding_service(embedder)
    /\ UNCHANGED <<tasks, now, call, window, ranked, raw, result, job, embed>>

\* run k handles its next id
RunStep(k) ==
    /\ runs[k].state = "running"
    /\ runs[k].pos <= Len(runs[k].task_ids)
    /\ \E enc \in EncoderOutcomes :
          \E next \in {job_step(tasks, runs[k], enc)} :
              /\ tasks' = next.store
              /\ runs' = [runs EXCEPT ![k] = next.job]
              /\ embedder' = IF next.encoding THEN model(embedder, enc.load) ELSE embedder
    /\ UNCHANGED <<now, call, window, ranked, raw, result, job, embed>>

\* the loop of run k is over
RunDone(k) ==
    /\ runs[k].state = "running"
    /\ runs[k].pos > Len(runs[k].task_ids)
    /\ runs' = [runs EXCEPT ![k].state = "done"]
    /\ UNCHANGED <<tasks, now, call, window, ranked, raw, result, job, embedder, embed>>

NextBackfill ==
    \/ Backfill(1)
    \/ \E task_ids \in JobLists : StartRun(task_ids, 1)
    \/ \E k \in 1 .. Len(runs) : RunStep(k)
    \/ \E k \in 1 .. Len(runs) : RunDone(k)

SpecBackfill == InitBackfill /\ [][NextBackfill]_vars

(***************************************************************************)
(* The scorer on its own: _calculate_importance_score and                  *)
(* _calculate_confidence applied to a ranked list of 1 .. NumTasks         *)
(* candidates.                                                             *)
(***************************************************************************)
\* completion times of the first candidate around the steps of the recency
\* factor: 30 days, 30 days and a half, 31 days, 90, 90 and a half, 91
FirstAges ==
    {-30 * TicksPerDay, -30 * TicksPerDay - 1, -31 * TicksPerDay,
     -90 * TicksPerDay, -90 * TicksPerDay - 1, -91 * TicksPerDay}

\* the vectors of n candidates, most similar first: all alike, one close
\* and the others farther, or the last one opposite to the query
CandidateVectors(n) ==
    {[i \in 1 .. n |-> V80],
     [i \in 1 .. n |-> IF i = 1 THEN V100h ELSE V60],
     [i \in 1 .. n |-> IF i = n THEN VNeg80 ELSE V80]}

\* n completed tasks of user 1, the first k of them important, the first
\* completed at time first and the others 10 days ago
StoresScorer ==
    {[i \in TaskIds |->
        IF i <= n
        THEN Done(1, vec[i], IF i = 1 THEN At(first) ELSE At(-10 * TicksPerDay), i <= k)
        ELSE NoRow] :
        <<n, k, first, vec>> \in
            UNION {{<<m, j, a, v>> : j \in 0 .. m, a \in FirstAges, v \in CandidateVectors(m)} :
                   m \in 1 .. NumTasks}}

\* the rows of the store as _find_similar_tasks hands them on: each with
\* its similarity to the query
Candidates(store) ==
    LET n == Cardinality({i \in TaskIds : store[i].present})
    IN  [i \in 1 .. n |->
            [id |-> i, similarity |-> compute_similarity(EQuery, store[i].embedding)]]

InitScorer ==
    /\ tasks \in StoresScorer
    /\ now = 0
    /\ call = NoCall
    /\ window = <<>>
    /\ ranked = Candidates(tasks)
    /\ raw = NoRaw
    /\ result = NoResult
    /\ job = NoJob
    /\ embedder = NoEmbedder
    /\ embed = NoEmbed
    /\ runs = <<>>

\* self._calculate_importance_score(similar_tasks)
CalculateImportanceScore ==
    /\ call.op = "none"
    /\ call' = [NoCall EXCEPT !.op = "calculate_importance_score"]
    /\ raw' = [NoRaw EXCEPT !.path = "scored",
                            !.importance = calculate_importance_score(tasks, ranked)]
    /\ UNCHANGED <<tasks, now, window, ranked, result, job, embedder, embed, runs>>

\* self._calculate_confidence(similar_tasks, urgency_score, importance_score)
CalculateConfidence ==
    /\ call.op = "calculate_importance_score"
    /\ call' = [NoCall EXCEPT !.op = "calculate_confidence"]
    /\ raw' = [raw EXCEPT !.confidence = calculate_confidence(tasks, ranked, now)]
    /\ UNCHANGED <<tasks, now, window, ranked, result, job, embedder, embed, runs>>

NextScorer == CalculateImportanceScore \/ CalculateConfidence

SpecScorer == InitScorer /\ [][NextScorer]_vars

(***************************************************************************)
(* The repository on its own: tasks are updated while time passes.         *)
(***************************************************************************)
\* the tasks as create() left them: open, without completion time; tasks 1
\* and 2 of user 1, task 3 of user 2
StoresCreated ==
    {[i \in TaskIds |->
        IF i \in {1, 2} THEN Pending(1, NoEmbedding, NoTime)
        ELSE IF i = 3 THEN Pending(2, NoEmbedding, NoTime)
        ELSE NoRow]}

InitRepository ==
    /\ tasks \in StoresCreated
    /\ now = 0
    /\ call = NoCall
    /\ window = <<>>
    /\ ranked = <<>>
    /\ raw = NoRaw
    /\ result = NoResult
    /\ job = NoJob
    /\ embedder = NoEmbedder
    /\ embed = NoEmbed
    /\ runs = <<>>

\* repo.update(task_id, user_id, TaskUpdate(status=status))
Update(task_id, user_id, status) ==
    /\ \E out \in {update(tasks, now, task_id, user_id, [status |-> status])} :
          /\ tasks' = out.store
          /\ result' = [NoResult EXCEPT
                           !.kind = IF out.exc.type = None THEN "returned" ELSE "raised",
                           !.exc = out.exc]
    /\ call' = [NoCall EXCEPT !.op = "update", !.task_id = task_id,
                              !.user_id = user_id, !.status = status]
    /\ UNCHANGED <<now, window, ranked, raw, job, embedder, embed, runs>>

\* time passes
Tick ==
    /\ now < MaxClock
    /\ now' = now + 1
    /\ UNCHANGED <<tasks, call, window, ranked, raw, result, job, embedder, embed, runs>>

UpdateIds == {1, 3, MissingId}

NextRepository ==
    \/ \E task_id \in UpdateIds, user_id \in Users, status \in StatusUpdates :
          Update(task_id, user_id, status)
    \/ Tick

SpecRepository == InitRepository /\ [][NextRepository]_vars

(***************************************************************************)
(* The embedding service on its own: a process that fetches the service,   *)
(* reads the model and the dimension and embeds texts, in any order.       *)
(***************************************************************************)
\* titles and descriptions: empty, whitespace, a word, a word in whitespace
Titles == {<<>>, <<Space>>, <<"a">>, <<Space, "a", Space>>, <<"a", Space, "b">>}
Descriptions == {NoDescription, <<>>, <<Space>>, <<"b">>, <<Space, "b", Space>>}

InitEmbedder ==
    /\ tasks = [i \in TaskIds |-> NoRow]
    /\ now = 0
    /\ call = NoCall
    /\ window = <<>>
    /\ ranked = <<>>
    /\ raw = NoRaw
    /\ result = NoResult
    /\ job = NoJob
    /\ embedder = NoEmbedder
    /\ embed = NoEmbed
    /\ runs = <<>>

Collaborators == <<tasks, now, call, window, ranked, raw, result, job, runs>>

GetEmbeddingService ==
    /\ embedder' = get_embedding_service(embedder)
    /\ embed' = [NoEmbed EXCEPT !.op = "get_embedding_service"]
    /\ UNCHANGED Collaborators

\* service.model
Model(load) ==
    /\ embedder.service # None
    /\ embedder' = model(embedder, load)
    /\ embed' = [NoEmbed EXCEPT !.op = "model",
                                !.exc = IF ModelRaises(embedder, load)
                                        THEN Exc("RuntimeError",
                                                 "Could not load embedding model")
                                        ELSE NoExc]
    /\ UNCHANGED Collaborators

\* service.get_embedding_dim()
GetEmbeddingDim(load) ==
    /\ embedder.service # None
    /\ \E out \in {get_embedding_dim(embedder, load)} :
          /\ embedder' = out.embedder
          /\ embed' = [NoEmbed EXCEPT !.op = "get_embedding_dim", !.exc = out.exc,
                                      !.dim = out.value]
    /\ UNCHANGED Collaborators

\* service.generate_task_embedding(title, description)
GenerateTaskEmbedding(title, description, load, encode_ok) ==
    /\ embedder.service # None
    /\ \E out \in {generate_task_embedding(embedder, title, description, load, encode_ok)} :
          /\ embedder' = out.embedder
          /\ embed' = out.embed
    /\ UNCHANGED Collaborators

NextEmbedder ==
    \/ GetEmbeddingService
    \/ \E load \in LoadOutcomes : Model(load)
    \/ \E load \in LoadOutcomes : GetEmbeddingDim(load)
    \/ \E title \in Titles, description \in Descriptions, load \in LoadOutcomes,
          encode_ok \in BOOLEAN :
          GenerateTaskEmbedding(title, description, load, encode_ok)

SpecEmbedder == InitEmbedder /\ [][NextEmbedder]_vars

(***************************************************************************)
(* Properties.                                                             *)
(***************************************************************************)
\* a direct call of suggest_priority is being answered
Suggesting == call.op = "suggest_priority"
\* ... and it returned a suggestion
Returned == Suggesting /\ result.kind = "returned"
\* ... and the suggestion was scored from history
Scored == Returned /\ raw.path = "scored"

Owner == call.user_id
QueryEmbedding == tasks[call.task_id].embedding
RankedIds == {ranked[i].id : i \in 1 .. Len(ranked)}
SimTo(i) == compute_similarity(QueryEmbedding, tasks[i].embedding)
CompletedAt(i) == tasks[i].completed_at[1]

\* the store with the rows of the other users removed
OwnRows(store, user_id) ==
    [i \in TaskIds |->
        IF store[i].present /\ store[i].user_id = user_id THEN store[i] ELSE NoRow]

\* C1: every task in the candidate window, in the ranked set and in the
\* similar_tasks of a response belongs to the requesting user, and the
\* outcome of the request is the one the same request has on the store
\* without the rows of the other users.
OwnerScoped ==
    ~Idle =>
        /\ \A i \in Range(window) : tasks[i].present /\ tasks[i].user_id = Owner
        /\ \A i \in RankedIds : tasks[i].present /\ tasks[i].user_id = Owner
        /\ \A i \in 1 .. Len(result.value.similar_tasks) :
              tasks[result.value.similar_tasks[i].id].user_id = Owner
        /\ Suggesting =>
              /\ window \in HistoryQuery(OwnRows(tasks, Owner), Owner) \cup {<<>>}
              /\ LET out == suggest_priority("AsyncSession", OwnRows(tasks, Owner), now,
                                             window, call.task_id, Owner, call.top_k)
                 IN  /\ out.exc = result.exc
                     /\ out.value = result.value
                     /\ out.top_tasks = ranked

\* a scored suggestion while another user holds a completed, embedded task
\* more similar to the query than every ranked one
OwnerScopedWitness ==
    /\ Scored
    /\ \E i \in TaskIds :
          /\ tasks[i].present /\ tasks[i].user_id # Owner
          /\ tasks[i].status = "DONE"
          /\ tasks[i].embedding # NoEmbedding
          /\ tasks[i].completed_at # NoTime
          /\ \A j \in 1 .. Len(ranked) : SimTo(i) > ranked[j].similarity

\* the caller of a handler gets the response of a task that is not the user's
NotFoundRequest ==
    /\ call.op \in {"suggest_priority", "get_priority_suggestion"}
    /\ ~CurrentTaskFound(tasks, call.task_id, call.user_id)

\* C2: a suggest request for a task id that does not exist or belongs to
\* another user ends in the not-found error, which the caller of the
\* handler sees as HTTP 404, whether or not the task has an embedding; no
\* suggestion is returned.
NotFoundIs404 ==
    NotFoundRequest =>
        /\ result.value = NoSuggestion
        /\ call.op = "suggest_priority" =>
              result.kind = "raised" /\ result.exc.type = "ValueError"
              /\ SaysNotFound(result.exc.msg)
        /\ call.op = "get_priority_suggestion" => result.status = 404

\* the part of C2 the service keeps when built on a session: the not-found
\* ValueError, before the embedding is looked at
NotFoundAtService ==
    (Suggesting /\ ~CurrentTaskFound(tasks, call.task_id, call.user_id)) =>
        /\ result.kind = "raised" /\ result.exc.type = "ValueError"
        /\ SaysNotFound(result.exc.msg)
        /\ result.value = NoSuggestion

\* the request is for a task of the user that has no embedding
NoEmbeddingRequest ==
    /\ call.op \in {"suggest_priority", "get_priority_suggestion"}
    /\ CurrentTaskFound(tasks, call.task_id, call.user_id)
    /\ tasks[call.task_id].embedding = NoEmbedding

\* C3: a suggest request for an owned task without embedding ends in the
\* precondition error, HTTP 422 for the caller of the handler; no embedding
\* is generated and the task still has none afterwards.
NoEmbeddingIs422 ==
    NoEmbeddingRequest =>
        /\ result.value = NoSuggestion
        /\ tasks[call.task_id].embedding = NoEmbedding
        /\ call.op = "suggest_priority" =>
              result.kind = "raised" /\ result.exc.type = "ValueError"
              /\ SaysNoEmbedding(result.exc.msg)
        /\ call.op = "get_priority_suggestion" => result.status = 422

\* the part of C3 the service keeps when built on a session
NoEmbeddingAtService ==
    (Suggesting /\ NoEmbeddingRequest) =>
        /\ result.kind = "raised" /\ result.exc.type = "ValueError"
        /\ SaysNoEmbedding(result.exc.msg)
        /\ result.value = NoSuggestion

\* C4: every task of the candidate window and of the ranked set is
\* completed, has an embedding and has a completed_at.
OnlyCompletedEvidence ==
    \A i \in Range(window) \cup RankedIds :
        /\ tasks[i].present
        /\ tasks[i].status = "DONE"
        /\ tasks[i].embedding # NoEmbedding
        /\ tasks[i].completed_at # NoTime

\* row i of the requesting user fails exactly the condition named
Fails(i, cond) ==
    /\ tasks[i].present /\ tasks[i].user_id = Owner
    /\ (tasks[i].status # "DONE") = (cond = "status")
    /\ (tasks[i].embedding = NoEmbedding) = (cond = "embedding")
    /\ (tasks[i].completed_at = NoTime) = (cond = "completed_at")

\* a scored suggestion over a store that holds a row of the user failing
\* only the status condition and a row failing only the completed_at one
OnlyCompletedEvidenceWitness ==
    /\ Scored
    /\ \E i, j \in TaskIds : Fails(i, "status") /\ Fails(j, "completed_at")

\* the request passed the checks of the handler and every stored vector of
\* the window has the dimensionality of the query
SearchDone ==
    /\ Suggesting
    /\ CurrentTaskFound(tasks, call.task_id, call.user_id)
    /\ QueryEmbedding # NoEmbedding
    /\ ~ShapeError(tasks, QueryEmbedding, window)

\* C5: the search returns min(k, n) tasks in non-increasing order of
\* similarity, the k most similar of the window; the window holds the
\* WindowLimit most recently completed eligible tasks of the user (n its
\* size); a result shorter than k, the empty one included, is returned as
\* a suggestion and not as an error.
TopKOfWindow ==
    SearchDone =>
        /\ result.kind = "returned"
        /\ Injective(window)
        /\ Range(window) \subseteq Eligible(tasks, Owner)
        /\ Len(window) = Min(WindowLimit, Cardinality(Eligible(tasks, Owner)))
        /\ \A i \in Range(window), j \in Eligible(tasks, Owner) \ Range(window) :
              CompletedAt(i) >= CompletedAt(j)
        /\ Len(ranked) = Min(call.top_k, Len(window))
        /\ Len(ranked) <= call.top_k
        /\ Cardinality(RankedIds) = Len(ranked)
        /\ RankedIds \subseteq Range(window)
        /\ \A i \in 1 .. Len(ranked) : ranked[i].similarity = SimTo(ranked[i].id)
        /\ \A i \in 1 .. Len(ranked) - 1 : ranked[i].similarity >= ranked[i + 1].similarity
        /\ \A i \in RankedIds, j \in Range(window) \ RankedIds : SimTo(i) >= SimTo(j)

\* more eligible tasks than the window holds, the most similar of them
\* outside the window, and a result cut to k tasks
TopKOfWindowWitness ==
    /\ Returned
    /\ Cardinality(Eligible(tasks, Owner)) > WindowLimit
    /\ Len(ranked) = call.top_k
    /\ Len(ranked) < Len(window)
    /\ \E j \in Eligible(tasks, Owner) \ Range(window) :
          \A i \in RankedIds : SimTo(j) > SimTo(i)

\* a find_similar request for an owned task that has an embedding
FindSimilarRequest ==
    /\ call.op = "find_similar_tasks"
    /\ CurrentTaskFound(tasks, call.task_id, call.user_id)
    /\ QueryEmbedding # NoEmbedding

\* C6: no entry of a ranked set has a similarity below min_similarity (the
\* threshold of the request; 0.0 when the caller passes none), and a
\* find_similar request is answered by a search run with the threshold the
\* caller passed.
BelowThresholdExcluded ==
    /\ ~Idle => \A i \in 1 .. Len(ranked) : ranked[i].similarity >= call.min_similarity
    /\ FindSimilarRequest => result.status = 200

\* the ranked output of the search of the request when the history query
\* returns rows
RankedOf(rows) == find_similar_tasks(tasks, QueryEmbedding, rows, call.top_k).top_tasks

\* of two candidates of equal similarity the later completed one is ranked
\* first, and is the one that survives the cut to k
RecentFirstOnTies ==
    SearchDone =>
        /\ \A i, j \in 1 .. Len(ranked) :
              (i < j /\ ranked[i].similarity = ranked[j].similarity)
                  => CompletedAt(ranked[i].id) >= CompletedAt(ranked[j].id)
        /\ \A i \in RankedIds, j \in Range(window) \ RankedIds :
              SimTo(i) = SimTo(j) => CompletedAt(i) >= CompletedAt(j)

\* C7: candidates of equal similarity are ranked the later completed one
\* first, and the ranked output is the same on every run over the same
\* store: whatever rows the history query returns, the output is the one of
\* this run.
TieBrokenByRecency ==
    /\ RecentFirstOnTies
    /\ SearchDone => \A rows \in HistoryQuery(tasks, Owner) : RankedOf(rows) = ranked

\* two runs over the store of the request differ in the ranked output
TwoRunsDiffer ==
    /\ SearchDone
    /\ \E rows \in HistoryQuery(tasks, Owner) : RankedOf(rows) # ranked

\* the table of the urgency score, in hundredths, for d whole days to the
\* due date
TableValue(d) ==
    IF d < 0 THEN 100
    ELSE IF d \in 0 .. 1 THEN 100
    ELSE IF d \in 2 .. 3 THEN 80
    ELSE IF d \in 4 .. 7 THEN 60
    ELSE IF d \in 8 .. 14 THEN 40
    ELSE IF d \in 15 .. 30 THEN 20
    ELSE 10

DueDate == tasks[call.task_id].due_date
DaysToDue == Days(DueDate[1] - now)

\* C8: the urgency score of a suggestion is the table value for the whole
\* days between now and the due date, 0.1 without a due date; a task
\* without a due date gets a suggestion, not an error.
UrgencyIsTableValue ==
    SearchDone =>
        /\ result.kind = "returned"
        /\ LET expected == IF DueDate = NoTime THEN 10 ELSE TableValue(DaysToDue)
           IN  /\ raw.urgency = Rat(expected, 100)
               /\ result.value.urgency_score = expected

\* a task due in 8 whole days scores 0.4, one day after the last 0.6
UrgencyIsTableValueWitness ==
    /\ Returned
    /\ DueDate # NoTime
    /\ DaysToDue = 8
    /\ result.value.urgency_score = 40

\* the sums of the weighted average over the whole ranked set, in hundredths
SimilaritySum == SumSeq([i \in 1 .. Len(ranked) |-> ranked[i].similarity])
ImportantSimilaritySum ==
    SumSeq([i \in 1 .. Len(ranked) |->
               IF tasks[ranked[i].id].is_important THEN ranked[i].similarity ELSE 0])

\* the candidates (0.9, important), (0.8, important), (0.3, not important)
ExampleRanked ==
    /\ Len(ranked) = 3
    /\ [i \in 1 .. 3 |-> ranked[i].similarity] = <<90, 80, 30>>
    /\ [i \in 1 .. 3 |-> tasks[ranked[i].id].is_important] = <<TRUE, TRUE, FALSE>>

ExampleScore ==
    ExampleRanked =>
        /\ raw.importance = Rat(85, 100)
        /\ result.value.importance_score = 85
        /\ result.value.suggested_important

ImportantIffShownScoreAboveHalf ==
    Returned => (result.value.suggested_important <=> result.value.importance_score > 50)

\* C10: in every result of suggest suggested_important is True exactly when
\* the score computed by the scorer is above 0.5, and the importance_score
\* of the result is that score rounded to two decimals; the fallback has
\* score 0.5 and suggested_important False.
ImportantIffScoreAboveHalf ==
    Returned =>
        /\ result.value.suggested_important <=> RLess(Rat(1, 2), raw.importance)
        /\ result.value.importance_score = Round2(raw.importance)
        /\ result.value.importance_score > 50 => result.value.suggested_important
        /\ result.value.importance_score < 50 => ~result.value.suggested_important
        /\ raw.path = "fallback" =>
              result.value.importance_score = 50 /\ ~result.value.suggested_important

\* a scored result that shows importance_score 0.5 with suggested_important
\* True: the score was above 0.5 by less than half a hundredth
ImportantIffScoreAboveHalfWitness ==
    /\ Scored
    /\ result.value.importance_score = 50
    /\ result.value.suggested_important

\* the confidence of the ranked set of the request before the cap
Uncapped == weighted_confidence(confidence_factors(tasks, ranked, now))

\* C11: the confidence of every suggestion, as computed and as shown in the
\* result, is at most 0.95.
ConfidenceAtMost95 ==
    Returned =>
        /\ RLeq(raw.confidence, Rat(95, 100))
        /\ result.value.confidence = Round2(raw.confidence)
        /\ result.value.confidence <= 95

\* a scored suggestion whose four factors combine to more than 0.95
ConfidenceAtMost95Witness ==
    /\ Scored
    /\ RLess(Rat(95, 100), Uncapped)
    /\ result.value.confidence = 95

\* the exact value x lies in [0, 1]
InUnit(x) == RLeq(Rat(0, 1), x) /\ RLeq(x, Rat(1, 1))

\* C12: for every non-empty ranked set (its similarities are cosines, in
\* [-1, 1]) each of the four factors of the confidence lies in [0, 1], and
\* so does the confidence, as computed and as shown; it is never negative.
FactorsInUnitInterval ==
    Scored =>
        /\ \A i \in 1 .. Len(ranked) : ranked[i].similarity \in -100 .. 100
        /\ LET f == confidence_factors(tasks, ranked, now)
           IN  /\ InUnit(f.avg_similarity)
               /\ InUnit(f.consistency)
               /\ InUnit(f.count_factor)
               /\ InUnit(f.recency_factor)
        /\ InUnit(raw.confidence)
        /\ result.value.confidence \in 0 .. 100

\* what does hold: only the average similarity leaves [0, 1], and only
\* downwards
OtherFactorsInUnitInterval ==
    Scored =>
        LET f == confidence_factors(tasks, ranked, now)
        IN  /\ InUnit(f.consistency)
            /\ InUnit(f.count_factor)
            /\ InUnit(f.recency_factor)
            /\ RLeq(f.avg_similarity, Rat(1, 1))
            /\ RLeq(raw.confidence, Rat(1, 1))

\* a suggestion with a negative confidence
NegativeConfidence == Scored /\ RLess(raw.confidence, Rat(0, 1))

\* the task asked about is found and embedded, and its owner has no
\* eligible task in the history
ZeroHistory == SearchDone /\ Eligible(tasks, Owner) = {}

\* C13: with zero eligible historical tasks suggest returns, without error,
\* importance_score 0.5, confidence 0.3, suggested_important False, no
\* similar_tasks, the table urgency, and the quadrant DELEGATE when
\* suggested_urgent and ELIMINATE otherwise; a task overdue by 2 days gets
\* urgency 1.0 and DELEGATE.
FallbackOnZeroHistory ==
    ZeroHistory =>
        /\ result.kind = "returned"
        /\ raw.path = "fallback"
        /\ result.value.task_id = call.task_id
        /\ result.value.importance_score = 50
        /\ result.value.confidence = 30
        /\ ~result.value.suggested_important
        /\ result.value.similar_tasks = <<>>
        /\ result.value.urgency_score =
              IF DueDate = NoTime THEN 10 ELSE TableValue(DaysToDue)
        /\ result.value.suggested_urgent <=> result.value.urgency_score > 50
        /\ result.value.suggested_quadrant =
              IF result.value.suggested_urgent THEN "DELEGATE" ELSE "ELIMINATE"
        /\ (DueDate # NoTime /\ DaysToDue = -2) =>
              /\ result.value.urgency_score = 100
              /\ result.value.suggested_quadrant = "DELEGATE"

\* the task overdue by 2 days, no history
FallbackOnZeroHistoryWitness ==
    /\ ZeroHistory
    /\ Returned
    /\ DueDate # NoTime
    /\ DaysToDue = -2
    /\ result.value.suggested_quadrant = "DELEGATE"

\* the quadrant of a pair of flags, as the spec lists it
QuadrantOf(urgent, important) ==
    CASE urgent /\ important -> "DO_FIRST"
      [] ~urgent /\ important -> "SCHEDULE"
      [] urgent /\ ~important -> "DELEGATE"
      [] ~urgent /\ ~important -> "ELIMINATE"

\* C14: the quadrant of a scored suggestion and the quadrant of every task
\* shown in similar_tasks are the listed quadrant of their flags, and the
\* derivation of the scorer and the quadrant property of the task model
\* agree on all four pairs of flags.
QuadrantsAgree ==
    /\ \A u \in BOOLEAN, imp \in BOOLEAN :
          /\ get_quadrant(u, imp) = QuadrantOf(u, imp)
          /\ quadrant([is_urgent |-> u, is_important |-> imp]) = get_quadrant(u, imp)
    /\ Scored =>
          /\ result.value.suggested_quadrant =
                QuadrantOf(result.value.suggested_urgent, result.value.suggested_important)
          /\ \A i \in 1 .. Len(result.value.similar_tasks) :
                LET t == result.value.similar_tasks[i]
                IN  /\ t.quadrant = QuadrantOf(t.was_urgent, t.was_important)
                    /\ (/\ t.was_urgent = result.value.suggested_urgent
                        /\ t.was_important = result.value.suggested_important)
                          => t.quadrant = result.value.suggested_quadrant

\* a suggestion and a task shown with it that have the flags u, imp and the
\* same quadrant
SameQuadrant(u, imp) ==
    /\ Scored
    /\ result.value.suggested_urgent = u
    /\ result.value.suggested_important = imp
    /\ \E i \in 1 .. Len(result.value.similar_tasks) :
          /\ result.value.similar_tasks[i].was_urgent = u
          /\ result.value.similar_tasks[i].was_important = imp
          /\ result.value.similar_tasks[i].quadrant = result.value.suggested_quadrant

\* the pair (urgent, not important): DELEGATE from both derivations
QuadrantsAgreeWitness ==
    /\ SameQuadrant(TRUE, FALSE)
    /\ result.value.suggested_quadrant = "DELEGATE"

\* the operations that answer a suggest or a find_similar request
RequestOps == {"suggest_priority", "get_priority_suggestion", "find_similar_tasks"}

\* C15: no suggest or find_similar request, answered or failed, changes a
\* stored task: status, flags, completed_at and embedding of every task are
\* after the request what they were before it; the suggested flags are not
\* written to the task asked about.
RequestsLeaveTasks ==
    [][(call'.op \in RequestOps /\ Idle) =>
          \A i \in TaskIds :
              /\ tasks'[i].present = tasks[i].present
              /\ tasks'[i].is_urgent = tasks[i].is_urgent
              /\ tasks'[i].is_important = tasks[i].is_important
              /\ tasks'[i].status = tasks[i].status
              /\ tasks'[i].completed_at = tasks[i].completed_at
              /\ tasks'[i].embedding = tasks[i].embedding]_vars

\* a suggestion whose flags are not the flags stored on the task asked about
RequestsLeaveTasksWitness ==
    /\ Returned
    /\ result.value.suggested_urgent # tasks[call.task_id].is_urgent
    /\ result.value.suggested_important # tasks[call.task_id].is_important

OwnedByJob(i) == i \in TaskIds /\ tasks[i].present /\ tasks[i].user_id = job.user_id

\* C17: a backfill request is accepted, and when a run of the backfill has
\* ended (no call of the encoder having failed) every task of the user on
\* its list has an embedding, so that suggest no longer refuses it for want
\* of one.
BackfillEmbedsAll ==
    /\ call.op = "generate_embeddings" => result.status = 200
    /\ job.state = "done" =>
          \A k \in 1 .. Len(job.task_ids) :
              OwnedByJob(job.task_ids[k]) =>
                  /\ tasks[job.task_ids[k]].embedding # NoEmbedding
                  /\ ~SaysNoEmbedding(
                        suggest_priority("AsyncSession", tasks, now, <<>>, job.task_ids[k],
                                         job.user_id, 1).exc.msg)

\* a run has ended and a task of the user on its list is still without
\* embedding
StillWithoutEmbedding ==
    /\ job.state = "done"
    /\ \E k \in 1 .. Len(job.task_ids) :
          OwnedByJob(job.task_ids[k]) /\ tasks[job.task_ids[k]].embedding = NoEmbedding

\* what the run does keep: it never stores anything, and counts one error
\* per id
BackfillStoresNothing ==
    job.state = "done" =>
        /\ job.stored = {}
        /\ job.processed = 0
        /\ job.errors = Len(job.task_ids)

\* the user has tasks and every one of them has an embedding
FullyEmbedded(user_id) ==
    /\ \E i \in TaskIds : tasks[i].present /\ tasks[i].user_id = user_id
    /\ \A i \in TaskIds :
          (tasks[i].present /\ tasks[i].user_id = user_id) => tasks[i].embedding # NoEmbedding

\* C18: a backfill request with force = False for a user whose tasks all
\* have an embedding writes nothing and starts no background task: the
\* store after the request is the store before it, whenever the request is
\* made (twice in a row included).
BackfillIdempotent ==
    [][(/\ Idle
        /\ call'.op = "generate_embeddings"
        /\ ~call'.force
        /\ FullyEmbedded(call'.user_id)) =>
          (tasks' = tasks /\ job' = NoJob)]_vars

\* such a request has been answered
BackfillIdempotentWitness ==
    /\ call.op = "generate_embeddings"
    /\ ~call.force
    /\ FullyEmbedded(call.user_id)
    /\ job = NoJob

\* the step reads the model: a health check, or a pass of the background
\* task that calls the encoder
NeedsModel ==
    \/ \E load \in LoadOutcomes : HealthCheck(load)
    \/ JobStep /\ \E enc \in EncoderOutcomes : job_step(tasks, job, enc).encoding

\* C19: whatever requests are served, and however they interleave with the
\* background task, the process constructs the encoding model at most
\* once: the model is absent until a request that needs it, and once it is
\* there no step constructs it again, replaces it or replaces the service
\* that holds it.
ModelLoadedOnce ==
    [][/\ embedder'.loads <= 1
       /\ (embedder.model = None) = (embedder.loads = 0)
       /\ embedder.model = None /\ embedder'.model # None => NeedsModel
       /\ embedder.model # None => /\ embedder'.model = embedder.model
                                   /\ embedder'.loads = embedder.loads
       /\ embedder.service # None => embedder'.service = embedder.service]_vars

\* the model is loaded and a health check is answered from it while the
\* background task is in its loop
ModelLoadedOnceWitness ==
    /\ embedder.model = "SentenceTransformer"
    /\ embedder.loads = 1
    /\ job.state = "running"
    /\ job.pos > 1

\* the stored vector of task i has another length than the query vector
Misshapen(i) == Len(tasks[i].embedding) # Len(QueryEmbedding)

\* the request passed the checks of the handler and the window of the
\* search holds a stored vector of another dimensionality
DimensionMismatch ==
    /\ Suggesting
    /\ CurrentTaskFound(tasks, call.task_id, call.user_id)
    /\ QueryEmbedding # NoEmbedding
    /\ \E i \in Range(window) : Misshapen(i)

\* C20: when a stored vector of the window has another dimensionality than
\* the query vector the similarity computation raises (numpy's ValueError,
\* shapes not aligned) and the request ends with that error: nothing is
\* ranked and no suggestion is produced; and no ranking and no list of
\* similar tasks ever holds a task whose vector has another length than the
\* query vector.
MismatchRaises ==
    /\ DimensionMismatch =>
          /\ result.kind = "raised"
          /\ result.exc = Exc("ValueError", "shapes not aligned")
          /\ ranked = <<>>
          /\ raw = NoRaw
          /\ result.value = NoSuggestion
    /\ ~Idle =>
          /\ \A j \in 1 .. Len(ranked) : ~Misshapen(ranked[j].id)
          /\ \A j \in 1 .. Len(result.value.similar_tasks) :
                ~Misshapen(result.value.similar_tasks[j].id)

\* the request is raised while the window holds, next to the vector of
\* another length, a vector the query could have been compared with
MismatchRaisesWitness ==
    /\ DimensionMismatch
    /\ result.kind = "raised"
    /\ \E i \in Range(window) : ~Misshapen(i) /\ SimTo(i) > 0

\* a call of generate_task_embedding has been answered
Embedding == embed.op = "generate_task_embedding"

EmptyInput == Exc("ValueError", "Cannot generate embedding from empty text")

\* the combined text is empty after trimming: the empty-input error is
\* raised, the model is not invoked and the service is left as it was
EmptyTextRejected ==
    [][\A title \in Titles, description \in Descriptions, load \in LoadOutcomes,
          encode_ok \in BOOLEAN :
          GenerateTaskEmbedding(title, description, load, encode_ok) =>
              /\ embed'.text = Strip(CombinedText(title, description))
              /\ embed'.text = <<>> =>
                    /\ embed'.exc = EmptyInput
                    /\ ~embed'.encode_called
                    /\ embedder' = embedder]_vars

\* C21: the embedder accepts only a title that is non-empty after trimming:
\* a call whose title is empty or whitespace raises the empty-input error
\* and the model is not invoked, so that such a title is never embedded.
EmptyTitleNeverEmbedded ==
    Embedding /\ Strip(embed.title) = <<>> =>
        /\ embed.exc = EmptyInput
        /\ ~embed.encode_called
        /\ embed.embedding = NoEmbedding

\* an empty title was embedded
EmptyTitleEmbedded ==
    /\ Embedding
    /\ embed.title = <<>>
    /\ embed.encode_called
    /\ embed.embedding # NoEmbedding

\* the first three ranked entries, the ones the response lists
Displayed == SubSeq(ranked, 1, Min(3, Len(ranked)))

\* the scores of the code, computed over the listed entries alone
ImportanceOfDisplayed == calculate_importance_score(tasks, Displayed)
ConfidenceOfDisplayed == calculate_confidence(tasks, Displayed, now)

\* C22: similar_tasks of a scored result is the first min(3, n) entries of
\* the ranked set, in ranked order; importance_score and confidence are
\* computed over all n ranked entries (n at most top_k), not over the
\* listed ones.
DisplayIsFirstThree ==
    Scored =>
        /\ Len(ranked) <= call.top_k
        /\ Len(result.value.similar_tasks) = Min(3, Len(ranked))
        /\ \A i \in 1 .. Len(result.value.similar_tasks) :
              /\ result.value.similar_tasks[i].id = ranked[i].id
              /\ result.value.similar_tasks[i].similarity = ranked[i].similarity
        /\ SimilaritySum # 0 =>
              result.value.importance_score =
                  Round2(Rat(ImportantSimilaritySum, SimilaritySum))
        /\ result.value.confidence = Round2(RMin(Uncapped, Rat(95, 100)))

\* four ranked tasks, three listed, and both scores differ from what the
\* three listed ones alone would give
DisplayIsFirstThreeWitness ==
    /\ Scored
    /\ Len(ranked) = 4
    /\ Len(result.value.similar_tasks) = 3
    /\ result.value.importance_score # Round2(ImportanceOfDisplayed)
    /\ result.value.confidence # Round2(ConfidenceOfDisplayed)

\* the text r is the urgency sentence of the task asked about, the history
\* sentences of the ranked set and the recommendation sentence of the
\* suggested quadrant, in that order
FixedOrder(r) ==
    /\ Len(r) >= 3
    /\ r[1] = UrgencyPart(tasks[call.task_id], now)
    /\ SubSeq(r, 2, Len(r) - 1) = HistoryParts(tasks, ranked)
    /\ r[Len(r)] = Part(quadrant_actions(result.value.suggested_quadrant), 0, 0, 0)

\* C23: the reasoning of every successful suggestion, the one produced with
\* zero historical candidates included, is the urgency sentence, the history
\* sentence and the recommendation sentence in that order, and its last part
\* is the recommendation sentence of the suggested_quadrant of the result.
ReasoningInFixedOrder == Returned => FixedOrder(result.value.reasoning)

\* what does hold: the reasoning of a suggestion scored from history
ScoredReasoningInFixedOrder == Scored => FixedOrder(result.value.reasoning)

\* a suggestion from zero candidates whose reasoning begins with the history
\* sentence and does not end with a recommendation sentence
FallbackReasoningDiffers ==
    /\ Returned
    /\ raw.path = "fallback"
    /\ result.value.reasoning[1].s =
          "No similar historical tasks found in your completed tasks. "
    /\ result.value.reasoning[Len(result.value.reasoning)].s #
          quadrant_actions(result.value.suggested_quadrant)

\* the step is an update by its owner that says DONE
SetsDone(i) == Update(i, tasks[i].user_id, "DONE")

ConfidenceComputed == call.op = "calculate_confidence"

ImportantRanked == Cardinality({i \in 1 .. Len(ranked) : tasks[ranked[i].id].is_important})

\* whole days since the first, most similar, candidate was completed
FirstAgeDays == Days(now - tasks[ranked[1].id].completed_at[1])

RecencyOfFirst ==
    IF FirstAgeDays <= 30 THEN Rat(10, 10)
    ELSE IF FirstAgeDays <= 90 THEN Rat(7, 10)
    ELSE Rat(5, 10)

\* 0.4 * mean similarity + 0.3 * 2 * |important_ratio - 0.5|
\* + 0.2 * min(n / 5, 1) + 0.1 * r
ConfidenceSum ==
    LET n == Len(ranked)
    IN  RAdd(RAdd(RMul(Rat(4, 10), Rat(SimilaritySum, 100 * n)),
                  RMul(Rat(3, 10), Rat(Abs(2 * ImportantRanked - n), n))),
             RAdd(RMul(Rat(2, 10), IF n >= 5 THEN Rat(1, 1) ELSE Rat(n, 5)),
                  RMul(Rat(1, 10), RecencyOfFirst)))

\* C25: for a non-empty ranked set of n candidates the confidence is
\* min(0.95, 0.4*mean similarity + 0.3*(2*|important_ratio - 0.5|)
\* + 0.2*min(n/5, 1) + 0.1*r), r being 1.0, 0.7 or 0.5 as the first candidate
\* was completed at most 30, at most 90 or more whole days ago; from 5
\* candidates on the sample-size factor is 1.
ConfidenceIsWeightedSum ==
    ConfidenceComputed =>
        raw.confidence = RMin(Rat(95, 100), ConfidenceSum)

\* six candidates, the first completed 30 days and a half ago and the
\* others 10 days ago, and a confidence below the cap
ConfidenceIsWeightedSumWitness ==
    /\ ConfidenceComputed
    /\ Len(ranked) = 6
    /\ tasks[ranked[1].id].completed_at = At(-30 * TicksPerDay - 1)
    /\ RLess(raw.confidence, Rat(95, 100))
    /\ RecencyOfFirst = Rat(1, 1)

\* C26: in every result suggest returns, scored or fallback, the
\* suggested_quadrant is the quadrant of the pair (suggested_urgent,
\* suggested_important) of that result, and suggested_urgent is True exactly
\* when the urgency_score of the result is above 0.5.
ResultQuadrantOfFlags ==
    Returned =>
        /\ result.value.suggested_quadrant =
              QuadrantOf(result.value.suggested_urgent, result.value.suggested_important)
        /\ result.value.suggested_urgent <=> result.value.urgency_score > 50

\* a fallback result of urgency 0.6: urgent, not important, DELEGATE
ResultQuadrantOfFlagsWitness ==
    /\ Returned
    /\ raw.path = "fallback"
    /\ result.value.urgency_score = 60
    /\ result.value.suggested_urgent
    /\ result.value.suggested_quadrant = "DELEGATE"

\* C27: for every non-empty ranked set (its similarities are cosines, in
\* [-1, 1], zero and negative ones included) the importance_score, as
\* computed and as returned, lies in [0, 1].
ImportanceInUnitInterval ==
    Scored =>
        /\ \A i \in 1 .. Len(ranked) : ranked[i].similarity \in -100 .. 100
        /\ InUnit(raw.importance)
        /\ result.value.importance_score \in 0 .. 100

\* what does hold: the score of a ranked set without negative similarity
ImportanceInUnitIntervalIfNonNegative ==
    Scored /\ (\A i \in 1 .. Len(ranked) : ranked[i].similarity >= 0) =>
        /\ InUnit(raw.importance)
        /\ result.value.importance_score \in 0 .. 100

\* a returned importance_score above 1, and one below 0
ImportanceAboveOne == Scored /\ result.value.importance_score > 100
ImportanceBelowZero == Scored /\ result.value.importance_score < 0

Writers(i) == {k \in 1 .. Len(runs) : i \in runs[k].stored}

Unloaded == embedder.model = None /\ embedder.embedding_dim = NoDim
Loaded == embedder.model # None /\ embedder.embedding_dim # NoDim

\* C30: after any sequence of accesses to the embedding service, failed loads
\* of the model and failed readings of its dimension included, the service is
\* fully unloaded or fully loaded, and get_embedding_dim never returns no
\* value while the service holds a model.
LoadedOrUnloaded ==
    /\ Unloaded \/ Loaded
    /\ (embed.op = "get_embedding_dim" /\ embed.exc = NoExc) => embed.dim # NoDim

\* what does hold: a service without model has no dimension, and a failed
\* construction of the model leaves the service unloaded
NoDimensionWithoutModel ==
    /\ embedder.model = None => embedder.embedding_dim = NoDim
    /\ embedder.loads <= 1

\* the service holds a model and get_embedding_dim has returned None
ModelWithoutDimension ==
    /\ embedder.model # None
    /\ embed.op = "get_embedding_dim"
    /\ embed.exc = NoExc
    /\ embed.dim = NoDim

====
